---- MODULE Spec2Model ----
(***************************************************************************)
(* Model of src/ResidualCouplingBlock.py: the channel Flip, the            *)
(* ResidualCouplingLayer (affine coupling) and the ResidualCouplingBlock   *)
(* (flow stack) of the VariTTS synthesizer.                                *)
(*                                                                         *)
(* Tensors are functions [batch -> [channel -> [time -> number]]], with    *)
(* 1-based indices; the mask x_mask of shape [B, 1, T] is                  *)
(* [batch -> [time -> number]] (its singleton axis is the broadcast).      *)
(* Numbers are exact rationals <<numerator, denominator>> in lowest terms, *)
(* so that tensor equality is exact equality of values.                    *)
(***************************************************************************)
EXTENDS Integers, Sequences, FiniteSets, TLC

\* ------------------------------------------------------------------ bounds
MaxChannels == 4
MaxHidden == 2
MaxFlows == 2
MaxTime == 2
MaxBatch == 1

\* ------------------------------------------------- exact rational numbers
Abs(n) == IF n < 0 THEN -n ELSE n

RECURSIVE GCD(_, _)
GCD(a, b) == IF b = 0 THEN a ELSE GCD(b, a % b)

Norm(n, d) ==
  LET k == GCD(Abs(n), d) IN <<n \div k, d \div k>>

Zero == <<0, 1>>
One == <<1, 1>>
Half == <<1, 2>>
R(n) == <<n, 1>>

RAdd(a, b) ==
  IF a[2] = 1 /\ b[2] = 1 THEN <<a[1] + b[1], 1>>
  ELSE Norm(a[1] * b[2] + b[1] * a[2], a[2] * b[2])
RNeg(a) == <<-a[1], a[2]>>
RSub(a, b) == RAdd(a, RNeg(b))
RMul(a, b) ==
  IF a[2] = 1 /\ b[2] = 1 THEN <<a[1] * b[1], 1>>
  ELSE Norm(a[1] * b[1], a[2] * b[2])
RInv(a) == IF a[1] > 0 THEN <<a[2], a[1]>> ELSE <<-a[2], -a[1]>>

RECURSIVE Pow2(_)
Pow2(n) == IF n = 0 THEN 1 ELSE 2 * Pow2(n - 1)

\* torch.exp on the rationals: 2^l at the integers, linear in between, and
\* exp(-l) = 1 / exp(l); positive, strictly increasing, exp(0) = 1.
RECURSIVE Exp(_)
Exp(l) ==
  IF l[1] >= 0
  THEN LET f == l[1] \div l[2]
       IN RMul(R(Pow2(f)), RAdd(One, RSub(l, R(f))))
  ELSE RInv(Exp(RNeg(l)))

RECURSIVE SumTo(_, _)
SumTo(f, n) == IF n = 0 THEN Zero ELSE RAdd(SumTo(f, n - 1), f[n])

\* ------------------------------------------------------------ tensor ops
\* A tensor as a value: the comparison makes TLC evaluate every entry once,
\* where a bare function expression is re-evaluated at each use.
Tensor(f) == IF f = f THEN f ELSE f

NChan(x) == Cardinality(DOMAIN x[1])

\* x * x_mask, x_mask broadcast over the channel axis
MulMask(x, x_mask) ==
  Tensor(
  [b \in DOMAIN x |-> [c \in DOMAIN x[b] |-> [t \in DOMAIN x[b][c] |->
     RMul(x[b][c][t], x_mask[b][t])]]])

\* torch.split(x, [half] * 2, 1)
Split0(x, half) ==
  Tensor(
  [b \in DOMAIN x |-> [c \in 1..half |-> x[b][c]]])

Split1(x, half) ==
  Tensor(
  [b \in DOMAIN x |-> [c \in 1..half |-> x[b][half + c]]])

\* a concatenation in the wrong order: torch.cat([x1, x0], 1)
CatSwapped(x0, x1) ==
  Tensor(
  [b \in DOMAIN x0 |->
     LET n0 == Cardinality(DOMAIN x0[b])
         n1 == Cardinality(DOMAIN x1[b])
     IN [c \in 1..(n0 + n1) |-> IF c <= n1 THEN x1[b][c] ELSE x0[b][c - n1]]])

\* torch.cat([x0, x1], 1)
Cat(x0, x1) ==
  Tensor(
  [b \in DOMAIN x0 |->
     LET n0 == Cardinality(DOMAIN x0[b])
         n1 == Cardinality(DOMAIN x1[b])
     IN [c \in 1..(n0 + n1) |-> IF c <= n0 THEN x0[b][c] ELSE x1[b][c - n0]]])

\* nn.Conv1d(in, out, 1) applied: a per-time-step linear map plus bias
Conv1d(conv, x) ==
  Tensor(
  [b \in DOMAIN x |-> [k \in DOMAIN conv.weight |-> [t \in 1..MaxTime |->
     RAdd(conv.bias[k],
          SumTo([c \in DOMAIN x[b] |-> RMul(conv.weight[k][c], x[b][c][t])],
                Cardinality(DOMAIN x[b])))]]])

\* torch.zeros_like(m)
ZerosLike(m) ==
  Tensor(
  [b \in DOMAIN m |-> [c \in DOMAIN m[b] |-> [t \in DOMAIN m[b][c] |-> Zero]]])

\* torch.sum(logs, [1, 2]): over the channel and the time axes, per batch
SumCT(logs) ==
  [b \in DOMAIN logs |->
     SumTo([c \in DOMAIN logs[b] |-> SumTo(logs[b][c], MaxTime)],
           Cardinality(DOMAIN logs[b]))]

\* torch.zeros(x.size(0))
ZerosB(x) == [b \in DOMAIN x |-> Zero]

\* Python's None, for the tensor- and record-valued variables
None == <<>>
NoError == "none"

\* ---------------------------------------------------------- construction
\* A parameter value of a freshly initialised or of a loaded network: the
\* seed stands for the random initialisation / the checkpoint.
Gen(seed, i, j) == R(((seed + i + 2 * j) % 3) - 1)

\* WaveNet(hidden_channels, kernel_size, dilation_rate, n_layers,
\* gin_channels=...): the injected transform network with its parameters
WaveNetInit(hidden_channels, gin_channels, seed) ==
  [hidden_channels |-> hidden_channels,
   gin_channels |-> gin_channels,
   w |-> Gen(seed, 1, 1),
   wg |-> Gen(seed, 2, 0)]

Raise(what) == [ok |-> FALSE, error |-> what]

\* a constructor that leaves post as randomly initialised as pre
LayerInitRandomPost(channels, hidden_channels, gin_channels, mean_only, seed) ==
  IF channels % 2 # 0
  THEN Raise("AssertionError: channels should be divisible by 2")
  ELSE LET half_channels == channels \div 2
           out == half_channels * (IF mean_only THEN 1 ELSE 2)
       IN [ok |-> TRUE,
           kind |-> "ResidualCouplingLayer",
           channels |-> channels,
           hidden_channels |-> hidden_channels,
           half_channels |-> half_channels,
           mean_only |-> mean_only,
           pre |-> [weight |-> [k \in 1..hidden_channels |->
                                  [c \in 1..half_channels |-> Gen(seed, k, c)]],
                    bias |-> [k \in 1..hidden_channels |-> Gen(seed + 1, k, 0)]],
           enc |-> WaveNetInit(hidden_channels, gin_channels, seed),
           post |-> [weight |-> [k \in 1..out |->
                                   [c \in 1..hidden_channels |-> Gen(seed, k, c)]],
                     bias |-> [k \in 1..out |-> One]]]

\* a constructor without the parity assertion
LayerInitNoAssert(channels, hidden_channels, gin_channels, mean_only, seed) ==
  LET half_channels == channels \div 2
      out == half_channels * (IF mean_only THEN 1 ELSE 2)
  IN [ok |-> TRUE,
      kind |-> "ResidualCouplingLayer",
      channels |-> channels,
      hidden_channels |-> hidden_channels,
      half_channels |-> half_channels,
      mean_only |-> mean_only,
      pre |-> [weight |-> [k \in 1..hidden_channels |->
                             [c \in 1..half_channels |-> Gen(seed, k, c)]],
               bias |-> [k \in 1..hidden_channels |-> Gen(seed + 1, k, 0)]],
      enc |-> WaveNetInit(hidden_channels, gin_channels, seed),
      post |-> [weight |-> [k \in 1..out |->
                              [c \in 1..hidden_channels |-> Zero]],
                bias |-> [k \in 1..out |-> Zero]]]

\* ResidualCouplingLayer.__init__
ResidualCouplingLayerInit(channels, hidden_channels, gin_channels, mean_only, seed) ==
  IF channels % 2 # 0
  THEN Raise("AssertionError: channels should be divisible by 2")
  ELSE LET half_channels == channels \div 2
           out == half_channels * (IF mean_only THEN 1 ELSE 2)
       IN [ok |-> TRUE,
           kind |-> "ResidualCouplingLayer",
           channels |-> channels,
           hidden_channels |-> hidden_channels,
           half_channels |-> half_channels,
           mean_only |-> mean_only,
           pre |-> [weight |-> [k \in 1..hidden_channels |->
                                  [c \in 1..half_channels |-> Gen(seed, k, c)]],
                    bias |-> [k \in 1..hidden_channels |-> Gen(seed + 1, k, 0)]],
           enc |-> WaveNetInit(hidden_channels, gin_channels, seed),
           post |-> [weight |-> [k \in 1..out |->
                                   [c \in 1..hidden_channels |-> Zero]],
                     bias |-> [k \in 1..out |-> Zero]]]

\* Flip()
FlipInit == [ok |-> TRUE, kind |-> "Flip"]

\* the loop of ResidualCouplingBlock.__init__: flows after i iterations
RECURSIVE BuildFlows(_, _, _, _, _)
BuildFlows(i, channels, hidden_channels, gin_channels, seed) ==
  IF i = 0 THEN [ok |-> TRUE, flows |-> <<>>]
  ELSE LET before == BuildFlows(i - 1, channels, hidden_channels, gin_channels, seed)
           layer == ResidualCouplingLayerInit(channels, hidden_channels,
                                              gin_channels, TRUE, seed + i)
       IN IF ~before.ok THEN before
          ELSE IF ~layer.ok THEN layer
          ELSE [ok |-> TRUE,
                flows |-> Append(Append(before.flows, layer), FlipInit)]

\* ResidualCouplingBlock.__init__
ResidualCouplingBlockInit(channels, hidden_channels, n_flows, gin_channels, seed) ==
  LET built == BuildFlows(n_flows, channels, hidden_channels, gin_channels, seed)
  IN IF ~built.ok THEN built
     ELSE [ok |-> TRUE,
           kind |-> "ResidualCouplingBlock",
           channels |-> channels,
           hidden_channels |-> hidden_channels,
           n_flows |-> n_flows,
           gin_channels |-> gin_channels,
           flows |-> built.flows]

\* The rows of post that produce logs hold small values in a checkpoint, as
\* the log-scales of a trained flow do, which keeps exp(logs) in range.
RowScale(layer, k) ==
  IF k > layer.half_channels THEN <<1, 64>> ELSE One

\* utils.load_checkpoint(...): learned parameters replace the initial ones
LoadLayer(layer, seed) ==
  [layer EXCEPT
     !.pre = [weight |-> [k \in DOMAIN layer.pre.weight |->
                            [c \in DOMAIN layer.pre.weight[k] |-> Gen(seed + 1, k, c)]],
              bias |-> [k \in DOMAIN layer.pre.bias |-> Gen(seed, k, 1)]],
     !.enc = [layer.enc EXCEPT !.w = Gen(seed, 2, 2), !.wg = Gen(seed, 1, 0)],
     !.post = [weight |-> [k \in DOMAIN layer.post.weight |->
                             [c \in DOMAIN layer.post.weight[k] |->
                                RMul(Gen(seed, k, c), RowScale(layer, k))]],
               bias |-> [k \in DOMAIN layer.post.bias |->
                           RMul(Gen(seed + 2, k, 0), RowScale(layer, k))]]]

LoadStage(stage, seed) ==
  IF stage.kind = "ResidualCouplingLayer" THEN LoadLayer(stage, seed) ELSE stage

LoadBlock(block, seed) ==
  [block EXCEPT !.flows = [i \in DOMAIN block.flows |->
                             LoadStage(block.flows[i], seed + i)]]

\* ------------------------------------------------------------- forward()
\* a flip of the time axis: torch.flip(x, [2])
FlipForwardTime(x, reverse) ==
  LET flipped == Tensor([b \in DOMAIN x |-> [c \in DOMAIN x[b] |->
                    [t \in 1..MaxTime |-> x[b][c][MaxTime + 1 - t]]]])
  IN IF ~reverse
     THEN [x |-> flipped, logdet |-> ZerosB(flipped)]
     ELSE [x |-> flipped, logdet |-> None]

\* a flip that takes reverse=True to mean "do not flip"
FlipForwardNoReverse(x, reverse) ==
  LET flipped == Tensor([b \in DOMAIN x |->
                    LET n == Cardinality(DOMAIN x[b])
                    IN [c \in 1..n |-> x[b][n + 1 - c]]])
  IN IF ~reverse
     THEN [x |-> flipped, logdet |-> ZerosB(flipped)]
     ELSE [x |-> x, logdet |-> None]

\* Flip.forward
FlipForward(x, reverse) ==
  LET flipped == Tensor([b \in DOMAIN x |->
                    LET n == Cardinality(DOMAIN x[b])
                    IN [c \in 1..n |-> x[b][n + 1 - c]]])
  IN IF ~reverse
     THEN [x |-> flipped, logdet |-> ZerosB(flipped)]
     ELSE [x |-> flipped, logdet |-> None]

\* WaveNet.forward(h, x_mask, g=g): shape preserving, mixes neighbouring
\* time steps of its (masked) input, adds the conditioning when g is given,
\* and masks its output
WaveNet(enc, h, x_mask, g) ==
  Tensor(
  [b \in DOMAIN h |-> [k \in DOMAIN h[b] |-> [t \in DOMAIN h[b][k] |->
     LET left == IF t - 1 \in DOMAIN h[b][k] THEN h[b][k][t - 1] ELSE Zero
         right == IF t + 1 \in DOMAIN h[b][k] THEN h[b][k][t + 1] ELSE Zero
         cond == IF g = None THEN Zero
                 ELSE RMul(enc.wg, SumTo(g[b], Cardinality(DOMAIN g[b])))
     IN RMul(RAdd(RAdd(h[b][k][t], RMul(enc.w, RAdd(left, right))), cond),
             x_mask[b][t])]]])

\* stats = self.post(h), the final mask forgotten
StatsUnmasked(layer, x0, x_mask, g) ==
  LET h == MulMask(Conv1d(layer.pre, x0), x_mask)
      h2 == WaveNet(layer.enc, h, x_mask, g)
  IN Conv1d(layer.post, h2)

\* h = self.pre(x0), the mask on the network's input forgotten
StatsLeak(layer, x0, x_mask, g) ==
  LET h == Conv1d(layer.pre, x0)
      h2 == WaveNet(layer.enc, h, x_mask, g)
  IN MulMask(Conv1d(layer.post, h2), x_mask)

\* h = self.pre(x0) * x_mask; h = self.enc(h, x_mask, g=g);
\* stats = self.post(h) * x_mask
Stats(layer, x0, x_mask, g) ==
  LET h == MulMask(Conv1d(layer.pre, x0), x_mask)
      h2 == WaveNet(layer.enc, h, x_mask, g)
  IN MulMask(Conv1d(layer.post, h2), x_mask)

\* m of "m, logs = torch.split(stats, ...)" / "m = stats"
MeanOf(layer, stats) ==
  IF ~layer.mean_only THEN Split0(stats, layer.half_channels) ELSE stats

\* logs of "m, logs = torch.split(stats, ...)" / "logs = torch.zeros_like(m)"
LogsOf(layer, stats) ==
  IF ~layer.mean_only THEN Split1(stats, layer.half_channels)
  ELSE ZerosLike(stats)

\* x1 = m + x1 * torch.exp(logs), the mask forgotten
ForwardX1Unmasked(m, logs, x1, x_mask) ==
  Tensor(
  [b \in DOMAIN x1 |-> [c \in DOMAIN x1[b] |-> [t \in DOMAIN x1[b][c] |->
     RAdd(m[b][c][t], RMul(x1[b][c][t], Exp(logs[b][c][t])))]]])

\* x1 = m + x1 * torch.exp(logs) * x_mask
ForwardX1(m, logs, x1, x_mask) ==
  Tensor(
  [b \in DOMAIN x1 |-> [c \in DOMAIN x1[b] |-> [t \in DOMAIN x1[b][c] |->
     RAdd(m[b][c][t],
          RMul(RMul(x1[b][c][t], Exp(logs[b][c][t])), x_mask[b][t]))]]])

\* x1 = (x1 + m) * torch.exp(-logs) * x_mask, the sign of m wrong
ReverseX1Plus(m, logs, x1, x_mask) ==
  Tensor(
  [b \in DOMAIN x1 |-> [c \in DOMAIN x1[b] |-> [t \in DOMAIN x1[b][c] |->
     RMul(RMul(RAdd(x1[b][c][t], m[b][c][t]), Exp(RNeg(logs[b][c][t]))),
          x_mask[b][t])]]])

\* x1 = (x1 - m) * torch.exp(-logs) * x_mask
ReverseX1(m, logs, x1, x_mask) ==
  Tensor(
  [b \in DOMAIN x1 |-> [c \in DOMAIN x1[b] |-> [t \in DOMAIN x1[b][c] |->
     RMul(RMul(RSub(x1[b][c][t], m[b][c][t]), Exp(RNeg(logs[b][c][t]))),
          x_mask[b][t])]]])

\* ResidualCouplingLayer.forward; m and logs ride along as the call's locals
ResidualCouplingLayerForward(layer, x, x_mask, g, reverse) ==
  LET x0 == Split0(x, layer.half_channels)
      x1 == Split1(x, layer.half_channels)
      stats == Stats(layer, x0, x_mask, g)
      m == MeanOf(layer, stats)
      logs == LogsOf(layer, stats)
  IN IF ~reverse
     THEN [x |-> Cat(x0, ForwardX1(m, logs, x1, x_mask)),
           logdet |-> SumCT(logs), m |-> m, logs |-> logs]
     ELSE [x |-> Cat(x0, ReverseX1(m, logs, x1, x_mask)),
           logdet |-> None, m |-> m, logs |-> logs]

\* flow(x, x_mask, g=g, reverse=reverse) for one stage of self.flows
StageForward(stage, x, x_mask, g, reverse) ==
  IF stage.kind = "Flip"
  THEN FlipForward(x, reverse)
  ELSE ResidualCouplingLayerForward(stage, x, x_mask, g, reverse)

\* "for flow in self.flows" / "for flow in reversed(self.flows)": the
\* stage indices in the order the loop visits them
RECURSIVE Reversed(_)
Reversed(s) == IF s = <<>> THEN <<>> ELSE Append(Reversed(Tail(s)), Head(s))

\* a loop that visits the stages in construction order whatever reverse is
IterOrderForward(block, reverse) ==
  [i \in 1..Len(block.flows) |-> i]

IterOrder(block, reverse) ==
  LET idx == [i \in 1..Len(block.flows) |-> i]
  IN IF ~reverse THEN idx ELSE Reversed(idx)

\* ------------------------------------------------------------------ state
VARIABLES
  module,      \* the constructed nn.Module, None before / without construction
  error,       \* the exception a constructor raised, or NoError
  checkpoint,  \* the checkpoints loaded into the module since construction
  pc,          \* "new", "idle", "loop" (inside the block's for loop), "returned"
  args,        \* the arguments of the running or last call (or constructor)
  x,           \* the local x of the running forward()
  it,          \* the stage indices the for loop has yet to visit
  trace,       \* the stage calls made by the running or last block call
  locals,      \* m and logs of the last coupling layer call
  ret,         \* the value the last call returned
  first,       \* arguments and result of the forward call being inverted
  twin         \* x of the same call on an input that differs where x_mask = 0

vars == <<module, error, checkpoint, pc, args, x, it, trace, locals, ret, first, twin>>

\* ----------------------------------------------------------------- inputs
Batches == 1..MaxBatch
Times == 1..MaxTime
MaskVals == {Zero, Half, One}
Seeds == {0}
Checkpoints == {1, 2}
EvenChannels == {c \in 1..MaxChannels : c % 2 = 0}

\* x_mask: element 1 takes any values, element b the same shifted b - 1 steps
Masks ==
  {[b \in Batches |-> [t \in Times |-> m1[((t + b - 2) % MaxTime) + 1]]] :
     m1 \in [Times -> MaskVals]}

\* x: every entry distinct and non-zero ("ramp"), or the same zeroed where
\* the mask is zero ("padded")
XKinds == {"ramp", "padded"}

Ramp(channels) ==
  [b \in Batches |-> [c \in 1..channels |-> [t \in Times |->
     R(c + channels * (t - 1) + channels * MaxTime * (b - 1))]]]

XOf(kind, channels, x_mask) ==
  IF kind = "ramp" THEN Ramp(channels)
  ELSE [b \in Batches |-> [c \in 1..channels |-> [t \in Times |->
          IF x_mask[b][t] = Zero THEN Zero ELSE Ramp(channels)[b][c][t]]]]

\* g of shape [B, gin_channels, 1], or None
Conds == {None, [b \in Batches |-> [j \in 1..1 |-> R(b)]]}

\* the twin input: x changed at exactly the positions where x_mask = 0
Perturb(xx, x_mask) ==
  Tensor(
  [b \in DOMAIN xx |-> [c \in DOMAIN xx[b] |-> [t \in DOMAIN xx[b][c] |->
     IF x_mask[b][t] = Zero THEN RAdd(xx[b][c][t], R(c)) ELSE xx[b][c][t]]]])

Idle ==
  /\ error = NoError /\ checkpoint = <<>> /\ pc = "idle" /\ args = None
  /\ x = None /\ it = <<>> /\ trace = <<>> /\ locals = None /\ ret = None
  /\ first = None /\ twin = None

\* utils.load_checkpoint(args.checkpoint_path, model_g=self.net_g)
LoadCheckpoint ==
  /\ pc = "idle" /\ checkpoint = <<>>
  /\ module.kind \in {"ResidualCouplingLayer", "ResidualCouplingBlock"}
  /\ \E ckpt \in Checkpoints :
       /\ checkpoint' = <<ckpt>>
       /\ module' = IF module.kind = "ResidualCouplingBlock"
                    THEN LoadBlock(module, ckpt) ELSE LoadLayer(module, ckpt)
  /\ UNCHANGED <<error, pc, args, x, it, trace, locals, ret, first, twin>>

\* ------------------------------------------------ ResidualCouplingBlock
InitBlock ==
  /\ \E channels \in 1..MaxChannels, n_flows \in 0..MaxFlows, seed \in Seeds :
       LET made == ResidualCouplingBlockInit(channels, MaxHidden, n_flows, 1, seed)
       IN made.ok /\ module = made
  /\ Idle

Entry(i, stage, reverse, inp, out) ==
  [stage |-> i, kind |-> stage.kind, reverse |-> reverse, inp |-> inp, out |-> out]

\* ResidualCouplingBlock.forward is entered
BlockCall ==
  /\ pc = "idle" /\ module.kind = "ResidualCouplingBlock"
  /\ \E x_mask \in Masks, kind \in XKinds, g \in Conds, reverse \in BOOLEAN :
       LET xx == XOf(kind, module.channels, x_mask)
       IN /\ args' = [x |-> xx, x_mask |-> x_mask, g |-> g, reverse |-> reverse]
          /\ x' = xx
          /\ twin' = Perturb(xx, x_mask)
          /\ it' = IterOrder(module, reverse)
  /\ pc' = "loop" /\ trace' = <<>> /\ locals' = None /\ ret' = None
  /\ UNCHANGED <<module, error, checkpoint, first>>

\* one iteration of the for loop: x, _ = flow(...) / x = flow(...)
BlockStep ==
  /\ pc = "loop" /\ it # <<>>
  /\ LET i == Head(it)
         stage == module.flows[i]
     IN \E r \in {StageForward(stage, x, args.x_mask, args.g, args.reverse)},
           r2 \in {StageForward(stage, twin, args.x_mask, args.g, args.reverse)} :
        /\ x' = r.x
        /\ twin' = r2.x
        /\ trace' = Append(trace, Entry(i, stage, args.reverse, x, r.x))
        /\ locals' = IF stage.kind = "Flip" THEN locals
                     ELSE [m |-> r.m, logs |-> r.logs]
  /\ it' = Tail(it)
  /\ UNCHANGED <<module, error, checkpoint, pc, args, ret, first>>

\* return x
BlockReturn ==
  /\ pc = "loop" /\ it = <<>>
  /\ ret' = x
  /\ pc' = "returned"
  /\ UNCHANGED <<module, error, checkpoint, args, x, it, trace, locals, first, twin>>

\* the result of a forward call is fed back with reverse=True, same mask and g
BlockCallInverse ==
  /\ pc = "returned" /\ module.kind = "ResidualCouplingBlock"
  /\ first = None /\ ~args.reverse
  /\ first' = [x |-> args.x, ret |-> ret, twin |-> twin]
  /\ args' = [args EXCEPT !.x = ret, !.reverse = TRUE]
  /\ x' = ret
  /\ twin' = Perturb(ret, args.x_mask)
  /\ it' = IterOrder(module, TRUE)
  /\ pc' = "loop" /\ trace' = <<>> /\ locals' = None /\ ret' = None
  /\ UNCHANGED <<module, error, checkpoint>>

Next == LoadCheckpoint \/ BlockCall \/ BlockStep \/ BlockReturn \/ BlockCallInverse

Spec == InitBlock /\ [][Next]_vars

\* ------------------------------------------------ ResidualCouplingLayer
InitLayer ==
  /\ \E channels \in EvenChannels, mean_only \in BOOLEAN, seed \in Seeds :
       module = ResidualCouplingLayerInit(channels, MaxHidden, 1, mean_only, seed)
  /\ Idle

\* ResidualCouplingLayer.forward, called on its own
LayerCall ==
  /\ pc = "idle" /\ module.kind = "ResidualCouplingLayer"
  /\ \E x_mask \in Masks, kind \in XKinds, g \in Conds, reverse \in BOOLEAN :
       \E xx \in {XOf(kind, module.channels, x_mask)} :
       \E r \in {ResidualCouplingLayerForward(module, xx, x_mask, g, reverse)},
          r2 \in {ResidualCouplingLayerForward(module, Perturb(xx, x_mask),
                                               x_mask, g, reverse)} :
          /\ args' = [x |-> xx, x_mask |-> x_mask, g |-> g, reverse |-> reverse]
          /\ ret' = [x |-> r.x, logdet |-> r.logdet]
          /\ locals' = [m |-> r.m, logs |-> r.logs]
          /\ twin' = r2.x
  /\ pc' = "returned"
  /\ UNCHANGED <<module, error, checkpoint, x, it, trace, first>>

\* the tensor a forward call returned is fed back with reverse=True
LayerCallInverse ==
  /\ pc = "returned" /\ module.kind = "ResidualCouplingLayer"
  /\ first = None /\ ~args.reverse
  /\ \E r \in {ResidualCouplingLayerForward(module, ret.x, args.x_mask, args.g, TRUE)},
        r2 \in {ResidualCouplingLayerForward(module, Perturb(ret.x, args.x_mask),
                                             args.x_mask, args.g, TRUE)} :
       /\ first' = [x |-> args.x, ret |-> ret.x, twin |-> twin]
       /\ args' = [args EXCEPT !.x = ret.x, !.reverse = TRUE]
       /\ ret' = [x |-> r.x, logdet |-> r.logdet]
       /\ locals' = [m |-> r.m, logs |-> r.logs]
       /\ twin' = r2.x
  /\ UNCHANGED <<module, error, checkpoint, pc, x, it, trace>>

NextLayer == LoadCheckpoint \/ LayerCall \/ LayerCallInverse

SpecLayer == InitLayer /\ [][NextLayer]_vars

\* ------------------------------------------------------------------ Flip
InitFlip == module = FlipInit /\ Idle

\* Flip.forward(x, x_mask, g=g, reverse=reverse): x_mask and g are ignored
FlipCall ==
  /\ pc = "idle" /\ module.kind = "Flip"
  /\ \E channels \in 1..MaxChannels, x_mask \in Masks, kind \in XKinds,
        g \in Conds, reverse \in BOOLEAN :
       \E xx \in {XOf(kind, channels, x_mask)} :
       \E r \in {FlipForward(xx, reverse)} :
          /\ args' = [x |-> xx, x_mask |-> x_mask, g |-> g, reverse |-> reverse]
          /\ ret' = [x |-> r.x, logdet |-> r.logdet]
  /\ pc' = "returned"
  /\ UNCHANGED <<module, error, checkpoint, x, it, trace, locals, first, twin>>

\* the tensor a forward call returned is fed back with reverse=True
FlipCallInverse ==
  /\ pc = "returned" /\ module.kind = "Flip"
  /\ first = None /\ ~args.reverse
  /\ \E r \in {FlipForward(ret.x, TRUE)} :
       /\ first' = [x |-> args.x, ret |-> ret.x, twin |-> twin]
       /\ args' = [args EXCEPT !.x = ret.x, !.reverse = TRUE]
       /\ ret' = [x |-> r.x, logdet |-> r.logdet]
  /\ UNCHANGED <<module, error, checkpoint, pc, x, it, trace, locals, twin>>

NextFlip == FlipCall \/ FlipCallInverse

SpecFlip == InitFlip /\ [][NextFlip]_vars

\* ---------------------------------------------------------- constructors
InitNew ==
  /\ module = None /\ error = NoError /\ checkpoint = <<>> /\ pc = "new"
  /\ args = None /\ x = None /\ it = <<>> /\ trace = <<>> /\ locals = None
  /\ ret = None /\ first = None /\ twin = None

Constructed(made) ==
  /\ module' = IF made.ok THEN made ELSE None
  /\ error' = IF made.ok THEN NoError ELSE made.error
  /\ pc' = IF made.ok THEN "idle" ELSE "failed"

\* ResidualCouplingLayer(channels, hidden_channels, ..., gin_channels, mean_only)
ConstructLayer ==
  /\ pc = "new"
  /\ \E channels \in 1..MaxChannels, hidden_channels \in 1..MaxHidden,
        gin_channels \in {0, 1}, mean_only \in BOOLEAN, seed \in Seeds :
       /\ args' = [class |-> "ResidualCouplingLayer", channels |-> channels,
                   hidden_channels |-> hidden_channels, n_flows |-> 0,
                   gin_channels |-> gin_channels, mean_only |-> mean_only]
       /\ Constructed(ResidualCouplingLayerInit(channels, hidden_channels,
                                                gin_channels, mean_only, seed))
  /\ UNCHANGED <<checkpoint, x, it, trace, locals, ret, first, twin>>

\* ResidualCouplingBlock(channels, hidden_channels, ..., n_flows, gin_channels)
ConstructBlock ==
  /\ pc = "new"
  /\ \E channels \in 1..MaxChannels, hidden_channels \in 1..MaxHidden,
        n_flows \in 0..MaxFlows, gin_channels \in {0, 1}, seed \in Seeds :
       /\ args' = [class |-> "ResidualCouplingBlock", channels |-> channels,
                   hidden_channels |-> hidden_channels, n_flows |-> n_flows,
                   gin_channels |-> gin_channels, mean_only |-> TRUE]
       /\ Constructed(ResidualCouplingBlockInit(channels, hidden_channels,
                                                n_flows, gin_channels, seed))
  /\ UNCHANGED <<checkpoint, x, it, trace, locals, ret, first, twin>>

NextInit == ConstructLayer \/ ConstructBlock \/ LoadCheckpoint

SpecInit == InitNew /\ [][NextInit]_vars

\* ------------------------------------- the block and the layer side by side
InitMasked == InitBlock \/ InitLayer

NextMasked ==
  \/ LoadCheckpoint
  \/ BlockCall \/ BlockStep \/ BlockReturn \/ BlockCallInverse
  \/ LayerCall \/ LayerCallInverse

SpecMasked == InitMasked /\ [][NextMasked]_vars

\* ================================================================ claims
Returned == pc = "returned"
Inverted == pc = "returned" /\ first # None
Loaded == checkpoint # <<>>
IsBinary(x_mask) ==
  \A b \in DOMAIN x_mask : \A t \in DOMAIN x_mask[b] : x_mask[b][t] \in {Zero, One}
HasValue(x_mask, v) ==
  \E b \in DOMAIN x_mask : \E t \in DOMAIN x_mask[b] : x_mask[b][t] = v
\* xx is zero wherever the mask is zero
Padded(xx, x_mask) ==
  \A b \in DOMAIN xx : \A c \in DOMAIN xx[b] : \A t \in DOMAIN xx[b][c] :
     x_mask[b][t] = Zero => xx[b][c][t] = Zero
\* the tensor the last call returned
Out == IF module.kind = "ResidualCouplingBlock" THEN ret ELSE ret.x

C2_StageOrder ==
  /\ Len(module.flows) = 2 * module.n_flows
  /\ \A i \in 1..Len(module.flows) :
       module.flows[i].kind =
         IF i % 2 = 1 THEN "ResidualCouplingLayer" ELSE "Flip"
  /\ pc \in {"loop", "returned"} =>
       /\ \A k \in 1..Len(trace) :
            /\ trace[k].stage =
                 IF args.reverse THEN Len(module.flows) + 1 - k ELSE k
            /\ trace[k].kind = module.flows[trace[k].stage].kind
            /\ trace[k].reverse = args.reverse
            /\ trace[k].inp = IF k = 1 THEN args.x ELSE trace[k - 1].out
       /\ Len(trace) + Len(it) = Len(module.flows)
       /\ Returned =>
            /\ Len(trace) = Len(module.flows)
            /\ ret = IF trace = <<>> THEN args.x ELSE trace[Len(trace)].out

C2_Witness ==
  /\ Returned /\ args.reverse /\ first = None /\ module.n_flows >= 2
  /\ trace[1].kind = "Flip" /\ trace[1].stage = Len(module.flows)
  /\ trace[Len(trace)].kind = "ResidualCouplingLayer"

\* the precondition of C3: a mean_only layer right after construction,
\* called forward without conditioning
C3_Case ==
  /\ Returned /\ module.kind = "ResidualCouplingLayer" /\ module.mean_only
  /\ ~Loaded /\ ~args.reverse /\ args.g = None

C4_FlipSelfInverse ==
  (Returned /\ module.kind = "Flip") =>
    /\ \A b \in DOMAIN ret.x : \A c \in DOMAIN ret.x[b] :
         ret.x[b][c] = args.x[b][NChan(args.x) + 1 - c]
    /\ NChan(ret.x) = NChan(args.x)
    /\ first # None => ret.x = first.x

C4_Witness ==
  /\ Inverted /\ module.kind = "Flip" /\ NChan(first.x) >= 3
  /\ first.ret # first.x /\ ret.x = first.x

\* C5: two inputs that differ only where the mask is 0 (x and its twin),
\* under the same mask, conditioning and parameters, give outputs that agree
\* wherever the mask is 1: for the stack and for a single coupling layer,
\* forward and reverse.
C5_MaskNonInterference ==
  Returned =>
    \A b \in DOMAIN twin : \A c \in DOMAIN twin[b] : \A t \in DOMAIN twin[b][c] :
       args.x_mask[b][t] = One => twin[b][c][t] = Out[b][c][t]

C5_Witness ==
  /\ Returned /\ module.kind = "ResidualCouplingBlock" /\ module.n_flows = 1
  /\ Loaded /\ first = None
  /\ HasValue(args.x_mask, Zero) /\ HasValue(args.x_mask, One)
  /\ Perturb(args.x, args.x_mask) # args.x
  /\ ret # args.x /\ twin # ret

\* the precondition of C6: a constructor was called with odd channels
C6_Odd == args # None /\ pc \in {"idle", "failed"} /\ args.channels % 2 = 1

\* C6 as stated: constructing a coupling layer, or a stack with any n_flows
\* (0 included), with odd channels fails and yields no module.
C6_Original ==
  C6_Odd => (pc = "failed" /\ module = None /\ error # NoError)

\* C6 as amended: constructing a coupling layer with odd channels fails with
\* the assertion's error and yields no layer; constructing a stack with odd
\* channels fails exactly when n_flows >= 1; with n_flows = 0 no layer is
\* built and the construction succeeds with the odd channels.
C6_ParityCheck ==
  (args # None /\ pc \in {"idle", "failed"}) =>
    IF args.channels % 2 = 1
       /\ (args.class = "ResidualCouplingLayer" \/ args.n_flows >= 1)
    THEN pc = "failed" /\ module = None /\ error # NoError
    ELSE /\ pc = "idle" /\ error = NoError
         /\ module.kind = args.class /\ module.channels = args.channels

C6_Witness ==
  /\ C6_Odd /\ pc = "failed" /\ module = None
  /\ args.class = "ResidualCouplingBlock" /\ args.n_flows >= 1

\* the forward call of a coupling layer returned
C7_Case ==
  Returned /\ module.kind = "ResidualCouplingLayer" /\ ~args.reverse

\* C7: the logdet of a forward call is, per batch element, the sum of logs
\* over the channels and the time steps where the mask is not 0; logs is 0
\* wherever the mask is 0; a mean_only layer returns logdet = 0.
C7_LogDet ==
  C7_Case =>
    \A b \in DOMAIN locals.logs :
      /\ ret.logdet[b] =
           SumTo([c \in DOMAIN locals.logs[b] |->
                    SumTo([t \in Times |->
                             IF args.x_mask[b][t] = Zero THEN Zero
                             ELSE locals.logs[b][c][t]], MaxTime)],
                 module.half_channels)
      /\ \A c \in DOMAIN locals.logs[b] : \A t \in Times :
           args.x_mask[b][t] = Zero => locals.logs[b][c][t] = Zero
      /\ module.mean_only => ret.logdet[b] = Zero

C7_Witness ==
  /\ C7_Case /\ ~module.mean_only /\ Loaded
  /\ HasValue(args.x_mask, Zero) /\ HasValue(args.x_mask, Half)
  /\ ret.logdet[1] # Zero

\* C8: the first half_channels channels of what a coupling layer returns are
\* those of its input, at every time step and for both values of reverse.
C8_PassThrough ==
  (Returned /\ module.kind = "ResidualCouplingLayer") =>
    /\ NChan(ret.x) = module.channels
    /\ \A b \in DOMAIN ret.x : \A c \in 1..module.half_channels :
         ret.x[b][c] = args.x[b][c]

C8_Witness ==
  /\ Returned /\ module.kind = "ResidualCouplingLayer" /\ args.reverse
  /\ first = None /\ ~module.mean_only /\ Loaded
  /\ HasValue(args.x_mask, Zero) /\ ~Padded(args.x, args.x_mask)
  /\ ret.x # args.x

\* the entries of the forward formula at batch b, channel c of x1, time t
C9_Out(b, c, t) == ret.x[b][module.half_channels + c][t]
C9_Scaled(b, c, t) ==
  RMul(args.x[b][module.half_channels + c][t], Exp(locals.logs[b][c][t]))

\* C9 as stated: for every mask value (0, 1 and attenuation values in
\* between) the transformed half is (m + x1 * exp(logs)) * mask.
C9_Original ==
  C7_Case =>
    \A b \in Batches : \A c \in 1..module.half_channels : \A t \in Times :
       C9_Out(b, c, t) =
         RMul(RAdd(locals.m[b][c][t], C9_Scaled(b, c, t)), args.x_mask[b][t])

\* C9 as amended: the transformed half is m + x1 * exp(logs) * mask, the mask
\* multiplying the x1 term only; where the mask is 0 or 1 this is
\* (m + x1 * exp(logs)) * mask.
C9_ForwardFormula ==
  C7_Case =>
    \A b \in Batches : \A c \in 1..module.half_channels : \A t \in Times :
       /\ C9_Out(b, c, t) =
            RAdd(locals.m[b][c][t], RMul(C9_Scaled(b, c, t), args.x_mask[b][t]))
       /\ args.x_mask[b][t] \in {Zero, One} =>
            C9_Out(b, c, t) =
              RMul(RAdd(locals.m[b][c][t], C9_Scaled(b, c, t)), args.x_mask[b][t])

C9_Witness ==
  /\ C7_Case /\ ~module.mean_only /\ Loaded
  /\ HasValue(args.x_mask, Zero) /\ ~Padded(args.x, args.x_mask)
  /\ \E b \in Batches : \E c \in 1..module.half_channels : \E t \in Times :
       /\ args.x_mask[b][t] = One
       /\ locals.m[b][c][t] # Zero /\ locals.logs[b][c][t] # Zero

\* channel c was the transformed half of some coupling layer of the stack
C10_Transformed(c) ==
  \/ module.n_flows >= 2
  \/ module.n_flows = 1 /\ c > module.channels \div 2

\* C10: for a {0,1}-valued mask and any x, the stack applied forward and then
\* in reverse returns x wherever the mask is 1; where the mask is 0, every
\* channel some coupling layer transformed holds 0.
C10_RoundTripValid ==
  (Inverted /\ module.kind = "ResidualCouplingBlock" /\ IsBinary(args.x_mask)) =>
    \A b \in DOMAIN ret : \A c \in DOMAIN ret[b] : \A t \in DOMAIN ret[b][c] :
       IF args.x_mask[b][t] = One
       THEN ret[b][c][t] = first.x[b][c][t]
       ELSE C10_Transformed(c) => ret[b][c][t] = Zero

C10_Witness ==
  /\ Inverted /\ module.kind = "ResidualCouplingBlock" /\ IsBinary(args.x_mask)
  /\ HasValue(args.x_mask, Zero) /\ HasValue(args.x_mask, One)
  /\ ~Padded(first.x, args.x_mask) /\ Loaded /\ module.n_flows = 1
  /\ ret # first.x /\ first.ret # first.x
====
